---- MODULE Spec2Model ----
(***************************************************************************)
(* Repo-Hunting: the GitHub repository search service.                     *)
(*                                                                         *)
(*   github_search.py  build_search_query, parse_time_period,              *)
(*                     fetch_repositories (the windowed sampler)           *)
(*   app.py            search_repositories (the /api/search entry point)   *)
(*                                                                         *)
(* Python's None is the empty tuple <<>> and a present value v is <<v>>.   *)
(* A dict is a record that holds exactly the keys the code sets.           *)
(* A text whose characters the code inspects (a topic, which is stripped   *)
(* and split) is a sequence of one-character strings; any other text is a  *)
(* string.                                                                 *)
(***************************************************************************)
EXTENDS Integers, Sequences, FiniteSets, TLC

VARIABLES
  globalRng,  \* state of the process-wide generator behind random.randint / random.shuffle
  pc,         \* where the handler (or the loop under study) stands
  req,        \* the arguments of the request being handled / handled last
  local,      \* the local variables of fetch_repositories for that request
  result,     \* what fetch_repositories returned or raised
  response,   \* what the entry point answered: status code and JSON body
  upstream,   \* what the upstream answered to the request's fetch
  fetches,    \* requests.get calls issued on behalf of the request
  outcomes,   \* answers returned for the request
  ref         \* an earlier seeded call kept for comparison: its inputs and its outcome

vars == <<globalRng, pc, req, local, result, upstream, response, fetches, outcomes, ref>>

None == <<>>
Some(v) == <<v>>
Nil == [nil |-> TRUE]

Min(a, b) == IF a <= b THEN a ELSE b
Abs(a) == IF a < 0 THEN 0 - a ELSE a

\* Python's a // b (floor division), b # 0.
PyFloorDiv(a, b) == IF b > 0 THEN a \div b ELSE (0 - a) \div (0 - b)

(***************************************************************************)
(* random.Random.  The generator is a small counter-based generator        *)
(* standing for the Mersenne Twister: a state that steps through a Weyl    *)
(* sequence, and an output that mixes the state.  random.Random(seed)      *)
(* seeds from abs(seed); the module-level functions use one hidden         *)
(* instance that is seeded from the operating system when the process      *)
(* starts.                                                                 *)
(***************************************************************************)
RngStates == 0..31
RngNext(s) == (s + 13) % 32
RngSeed(seed) == Abs(seed) % 32
RngOut(s) == ((7 * s * s + 5 * s) \div 4) % 16

\* _randbelow(n): one draw in 0..n-1, and the generator's next state.
Randbelow(s, n) == [val |-> RngOut(RngNext(s)) % n, rng |-> RngNext(s)]

\* The iteration assigning x[i] = x[j] and leaving x[j] as it was.
ShuffleStepNoSwap(xs, i, s) ==
  LET d == Randbelow(s, i)
      j == d.val + 1
  IN [xs |-> [xs EXCEPT ![i] = xs[j]], rng |-> d.rng]

\* One iteration of shuffle's loop, i counting down (1-based position i):
\*   j = randbelow(i + 1); x[i], x[j] = x[j], x[i]
ShuffleStep(xs, i, s) ==
  LET d == Randbelow(s, i)
      j == d.val + 1
  IN [xs |-> [xs EXCEPT ![i] = xs[j], ![j] = xs[i]], rng |-> d.rng]

\* The generator's state after k draws from state s: RngNext applied k times.
RngAfter(s, k) == (s + 13 * k) % 32

\* The loop's iterations for the positions hi, hi - 1, ..., lo of a list of n
\* elements, the generator being in state s when the loop starts: the iteration
\* for position i makes draw number n - i + 1.  The range is halved, and the upper
\* half's list is computed (its length taken) before the lower half runs, so that
\* the evaluation nests to a depth of log n.
RECURSIVE ShuffleRange(_, _, _, _, _)
ShuffleRange(xs, s, n, lo, hi) ==
  IF lo > hi THEN xs
  ELSE IF lo = hi THEN ShuffleStep(xs, lo, RngAfter(s, n - lo)).xs
  ELSE LET mid == (lo + hi) \div 2
           upper == ShuffleRange(xs, s, n, mid + 1, hi)
       IN IF Len(upper) = n THEN ShuffleRange(upper, s, n, lo, mid) ELSE upper

\* Random.shuffle(x): for i in reversed(range(1, len(x))).  [xs, rng]: the list
\* and the generator's state afterwards.
Shuffle(xs, s) ==
  [xs |-> ShuffleRange(xs, s, Len(xs), 2, Len(xs)),
   rng |-> IF Len(xs) < 2 THEN s ELSE RngAfter(s, Len(xs) - 1)]

\* list(range(1, n + 1))
Range1(n) == IF n < 1 THEN <<>> ELSE [k \in 1..n |-> k]

\* seq[idx] with Python's indexing: 0-based, a negative idx counts from the end.
PyIndexOk(seq, idx) == idx < Len(seq) /\ idx >= 0 - Len(seq)
PyIndex(seq, idx) == IF idx >= 0 THEN seq[idx + 1] ELSE seq[Len(seq) + idx + 1]

(***************************************************************************)
(* Text helpers.                                                           *)
(***************************************************************************)
Whitespace == {" "}

RECURSIVE LStrip(_)
LStrip(cs) == IF cs # <<>> /\ Head(cs) \in Whitespace THEN LStrip(Tail(cs)) ELSE cs

RECURSIVE RStrip(_)
RStrip(cs) ==
  IF cs # <<>> /\ cs[Len(cs)] \in Whitespace THEN RStrip(SubSeq(cs, 1, Len(cs) - 1)) ELSE cs

\* str.strip()
Strip(cs) == RStrip(LStrip(cs))

\* The string a sequence of characters spells.
RECURSIVE Str(_)
Str(cs) == IF cs = <<>> THEN "" ELSE Head(cs) \o Str(Tail(cs))

\* sep.join(parts)
RECURSIVE Join(_, _)
Join(sep, parts) ==
  IF parts = <<>> THEN ""
  ELSE IF Len(parts) = 1 THEN parts[1]
  ELSE parts[1] \o sep \o Join(sep, Tail(parts))

\* text.split(","): the pieces between the commas.
RECURSIVE SplitFrom(_, _)
SplitFrom(cs, cur) ==
  IF cs = <<>> THEN <<cur>>
  ELSE IF Head(cs) = "," THEN <<cur>> \o SplitFrom(Tail(cs), <<>>)
  ELSE SplitFrom(Tail(cs), Append(cur, Head(cs)))

SplitCommas(cs) == SplitFrom(cs, <<>>)

(***************************************************************************)
(* github_search.parse_time_period                                         *)
(***************************************************************************)
TimePeriodNames ==
  {"1week", "2weeks", "1month", "3months", "6months", "1year", "2years", "5years"}

TIME_PERIODS ==
  [n \in TimePeriodNames |->
     CASE n = "1week" -> 7 [] n = "2weeks" -> 14 [] n = "1month" -> 30
       [] n = "3months" -> 90 [] n = "6months" -> 180 [] n = "1year" -> 365
       [] n = "2years" -> 730 [] n = "5years" -> 1825]

\* str.lower() on the period texts the model draws.
Lower(s) == IF s = "3Months" THEN "3months" ELSE s

\* The texts datetime.strptime(s, "%Y-%m-%d") accepts, among those the model draws.
IsIsoDate(s) == s \in {"2024-01-01"}

\* (datetime.now() - timedelta(days)).strftime("%Y-%m-%d"): the date that many days
\* before the day of the call, written relative to that day.
DateDaysAgo(days) == "today-" \o ToString(days) \o "d"

parse_time_period(period_str) ==
  IF period_str = None \/ period_str = Some("") THEN None
  ELSE IF Lower(period_str[1]) \in TimePeriodNames
       THEN Some(DateDaysAgo(TIME_PERIODS[Lower(period_str[1])]))
  ELSE IF IsIsoDate(period_str[1]) THEN period_str
  ELSE None

(***************************************************************************)
(* github_search.build_search_query                                        *)
(*                                                                         *)
(* A filter set is a record: language (None or a string), topics (None or  *)
(* a list of texts), min_stars and max_stars (None or an integer),         *)
(* since_date (None or a string), exclude_archived, exclude_forks.         *)
(***************************************************************************)
\* `if language:` / `if since_date:` - neither None nor the empty string.
TruthyStr(o) == o # None /\ o # Some("")

LanguageParts(f) ==
  IF TruthyStr(f.language) THEN <<"language:" \o f.language[1]>> ELSE <<>>

\* for topic in topics: if topic.strip(): append "topic:" + topic.strip()
RECURSIVE TopicClauses(_)
TopicClauses(ts) ==
  IF ts = <<>> THEN <<>>
  ELSE (IF Strip(Head(ts)) # <<>> THEN <<"topic:" \o Str(Strip(Head(ts)))>> ELSE <<>>)
       \o TopicClauses(Tail(ts))

TopicParts(f) ==
  IF f.topics # None /\ f.topics # Some(<<>>) THEN TopicClauses(f.topics[1]) ELSE <<>>

\* The range clause dropping the upper bound when both bounds are given.
StarsPartsMinOnly(f) ==
  IF f.min_stars # None THEN <<"stars:>=" \o ToString(f.min_stars[1])>>
  ELSE IF f.max_stars # None THEN <<"stars:<=" \o ToString(f.max_stars[1])>>
  ELSE <<>>

StarsParts(f) ==
  IF f.min_stars # None /\ f.max_stars # None
    THEN <<"stars:" \o ToString(f.min_stars[1]) \o ".." \o ToString(f.max_stars[1])>>
  ELSE IF f.min_stars # None THEN <<"stars:>=" \o ToString(f.min_stars[1])>>
  ELSE IF f.max_stars # None THEN <<"stars:<=" \o ToString(f.max_stars[1])>>
  ELSE <<>>

SinceParts(f) ==
  IF TruthyStr(f.since_date) THEN <<"pushed:>=" \o f.since_date[1]>> ELSE <<>>

ArchivedParts(f) == IF f.exclude_archived THEN <<"archived:false">> ELSE <<>>

ForkParts(f) == IF f.exclude_forks THEN <<"fork:false">> ELSE <<>>

\* query_parts when the function returns.
query_parts(f) ==
  LanguageParts(f) \o TopicParts(f) \o StarsParts(f) \o SinceParts(f)
    \o ArchivedParts(f) \o ForkParts(f)

build_search_query(f) == Join(" ", query_parts(f))

(***************************************************************************)
(* github_search.fetch_repositories                                        *)
(*                                                                         *)
(* An upstream answer is [kind |-> "http", status, items, total_count]     *)
(* (the parsed body of the response) or [kind |-> "exc", text] (requests   *)
(* raised a RequestException with that text: no connection, or the ten     *)
(* second timeout).  Items are repository ids.                             *)
(***************************************************************************)
MaxPerPage == 100
MaxResults == 1000

RateLimitMessage == "GitHub API rate limit exceeded. Consider using a GitHub token."
UnauthorizedMessage == "Invalid GitHub Token. Please check your token and try again."

\* The dict returned on a failure.
ErrorEnvelope(msg) == [success |-> FALSE, error |-> msg, repos |-> <<>>, total_count |-> 0]

\* status 403
RateLimitedEnvelope == ErrorEnvelope(RateLimitMessage)

\* The 401 branch answering with the 403 branch's dict.
UnauthorizedAsRateLimited == ErrorEnvelope(RateLimitMessage)

\* status 401
UnauthorizedEnvelope == ErrorEnvelope(UnauthorizedMessage)

\* except requests.exceptions.RequestException as e
ExceptionEnvelope(text) == ErrorEnvelope("Error fetching repositories: " \o text)

\* str(HTTPError) as response.raise_for_status() builds it for a 4xx or 5xx status.
HttpErrorText(status) ==
  ToString(status) \o (IF status < 500 THEN " Client Error" ELSE " Server Error")

\* The page asked for lies beyond the shuffled page list.
ExhaustedEnvelope(seed) ==
  [success |-> TRUE, repos |-> <<>>, total_count |-> 0,
   message |-> "No more results.", seed |-> seed]

\* The upstream answered with no items.
EmptyEnvelope(seed) ==
  [success |-> TRUE, repos |-> <<>>, total_count |-> 0,
   message |-> "No repositories found matching the criteria.", seed |-> seed]

\* pages after rng = random.Random(seed); rng.shuffle(pages)
ShuffledPages(max_pages, seed) == Shuffle(Range1(max_pages), RngSeed(seed)).xs

\* page < max_pages and (page * per_page) < total_count
HasMore(page, per_page, max_pages, total_count) ==
  page < max_pages /\ page * per_page < total_count

\* The bounds check off by one: the first page beyond the list passes it.
PageOutOfBoundsLate(page, pages) == page > Len(pages) + 1

\* `if page > len(pages)`: the requested page lies beyond the shuffled page list.
PageOutOfBounds(page, pages) == page > Len(pages)

\* fetch_repositories up to its call of requests.get: it raises, returns, or has
\* the request's parameters ready.
FetchPrologue(query, num_repos, page, seed) ==
  LET per_page == Min(MaxPerPage, num_repos) IN
  IF per_page = 0
    THEN [kind |-> "raise", exc |-> "integer division or modulo by zero"]
  ELSE
    LET max_pages == PyFloorDiv(MaxResults, per_page)
        loc(gp) == [query |-> query, per_page |-> per_page, max_pages |-> max_pages,
                    page |-> page, seed |-> seed, github_page |-> gp]
    IN IF seed # None
         THEN LET pages == ShuffledPages(max_pages, seed[1]) IN
              IF PageOutOfBounds(page, pages)
                THEN [kind |-> "return", value |-> ExhaustedEnvelope(seed)]
              ELSE IF ~PyIndexOk(pages, page - 1)
                THEN [kind |-> "raise", exc |-> "list index out of range"]
              ELSE [kind |-> "get", local |-> loc(PyIndex(pages, page - 1))]
       ELSE [kind |-> "get", local |-> loc(page)]

\* The page's items shuffled by the process-wide generator whatever the seed.
ShuffleReposGlobally(l, repos, g) == Shuffle(repos, g)

\* The shuffle of the page's items: by a generator of the call's own, seeded with
\* seed + github_page, or by the process-wide generator.  [xs, rng]: the items and
\* the process-wide generator's state afterwards.
ShuffleRepos(l, repos, g) ==
  IF l.seed # None
    THEN [xs |-> Shuffle(repos, RngSeed(l.seed[1] + l.github_page)).xs, rng |-> g]
  ELSE Shuffle(repos, g)

\* fetch_repositories from the answer of requests.get on, with l its local variables
\* and g the state of the process-wide generator.  [value, rng].
FetchEpilogue(l, r, g) ==
  IF r.kind = "exc" THEN [value |-> ExceptionEnvelope(r.text), rng |-> g]
  ELSE IF r.status = 403 THEN [value |-> RateLimitedEnvelope, rng |-> g]
  ELSE IF r.status = 401 THEN [value |-> UnauthorizedEnvelope, rng |-> g]
  ELSE IF r.status >= 400 /\ r.status < 600
    THEN [value |-> ExceptionEnvelope(HttpErrorText(r.status)), rng |-> g]
  ELSE IF r.items = <<>> THEN [value |-> EmptyEnvelope(l.seed), rng |-> g]
  ELSE LET sh == ShuffleRepos(l, r.items, g) IN
       [value |-> [success |-> TRUE, repos |-> sh.xs, total_count |-> r.total_count,
                   query |-> l.query, seed |-> l.seed, page |-> l.page,
                   has_more |-> HasMore(l.page, l.per_page, l.max_pages, r.total_count)],
        rng |-> sh.rng]

\* github_search.format_repository: the fields shown for a repository.
format_repository(repo) == [full_name |-> repo]

(***************************************************************************)
(* app.search_repositories, the POST /api/search handler.                  *)
(*                                                                         *)
(* The request body is a record: language, topics (None, [list |-> texts]  *)
(* or [str |-> text]), min_stars, max_stars, since, exclude_archived,      *)
(* exclude_forks (None when the key is absent), num_repos, page, seed.     *)
(***************************************************************************)
\* data.get(key, default)
GetOr(o, default) == IF o = None THEN default ELSE o[1]

\* topics = data.get('topics', []); a string is split at commas, the pieces
\* stripped and the empty ones dropped.
RECURSIVE StripNonEmpty(_)
StripNonEmpty(ts) ==
  IF ts = <<>> THEN <<>>
  ELSE (IF Strip(Head(ts)) # <<>> THEN <<Strip(Head(ts))>> ELSE <<>>)
       \o StripNonEmpty(Tail(ts))

ParseTopics(t) ==
  IF t = None THEN Some(<<>>)
  ELSE IF "str" \in DOMAIN t[1] THEN Some(StripNonEmpty(SplitCommas(t[1].str)))
  ELSE Some(t[1].list)

\* The arguments the handler passes to build_search_query.
QueryFilters(data) ==
  [language |-> data.language,
   topics |-> ParseTopics(data.topics),
   min_stars |-> data.min_stars,
   max_stars |-> data.max_stars,
   since_date |-> IF TruthyStr(data.since) THEN parse_time_period(data.since) ELSE None,
   exclude_archived |-> GetOr(data.exclude_archived, FALSE),
   exclude_forks |-> GetOr(data.exclude_forks, FALSE)]

\* The seed drawn for any page of a request that carries no seed.
MintsSeedAnyPage(query, seed, page) == query # "" /\ seed = None

\* The seed drawn before the query is checked.
MintsSeedBeforeCheck(query, seed, page) == seed = None /\ page = 1

\* Whether the handler draws a seed: it has passed the empty-query check, the
\* request carries no seed and asks for the first page.
MintsSeed(query, seed, page) == query # "" /\ seed = None /\ page = 1

\* The draw that leaves the process-wide generator where it was.
MintSeedNoAdvance(g) == [val |-> Randbelow(g, 1000001).val, rng |-> g]

\* random.randint(0, 1000000) on the process-wide generator.
MintSeed(g) == Randbelow(g, 1000001)

EmptyQueryResponse ==
  [status |-> 400,
   body |-> [success |-> FALSE, error |-> "At least one search criterion must be specified"]]

\* except Exception as e
CrashResponse(text) == [status |-> 500, body |-> [success |-> FALSE, error |-> text]]

\* repos = [format_repository(repo) for repo in result['repos']]
FormatAll(repos) == [i \in 1..Len(repos) |-> format_repository(repos[i])]

\* The answer once fetch_repositories has returned env.
ResultResponse(query, env) ==
  IF ~env.success THEN [status |-> 500, body |-> env]
  ELSE [status |-> 200,
        body |-> [success |-> TRUE, query |-> query, total_count |-> env.total_count,
                  returned_count |-> Len(env.repos),
                  repositories |-> FormatAll(env.repos),
                  seed |-> IF "seed" \in DOMAIN env THEN env.seed ELSE None,
                  page |-> IF "page" \in DOMAIN env THEN env.page ELSE 1,
                  has_more |-> IF "has_more" \in DOMAIN env THEN env.has_more ELSE FALSE]]

(***************************************************************************)
(* The handler as a state machine.  A request arrives (Search): the        *)
(* handler runs until it answers or until fetch_repositories blocks in     *)
(* requests.get.  The upstream answers or the call times out (Respond):    *)
(* the handler runs to its answer.  The answer is sent and the handler's   *)
(* frame is gone (Deliver): of the call, only what it did to the           *)
(* process-wide generator remains.                                         *)
(***************************************************************************)
\* The handler's own variables once the query is built and the seed settled.
HandlerLocals(query, num_repos, page, seed, minted, get) ==
  [query |-> query, num_repos |-> num_repos, page |-> page, seed |-> seed,
   minted |-> minted, get |-> get]

SearchWith(data, n, p, s) ==
  \E query \in {build_search_query(QueryFilters(data))} :
  \E drawn \in {MintSeed(globalRng)} :
  LET num_repos == GetOr(n, 10)
      page == GetOr(p, 1)
      mint == MintsSeed(query, s, page)
      seed == IF mint THEN Some(drawn.val) ELSE s
  IN /\ req' = [data |-> data, num_repos |-> n, page |-> p, seed |-> s]
     /\ upstream' = Nil
     /\ ref' = ref
     /\ globalRng' = IF mint THEN drawn.rng ELSE globalRng
     /\ IF query = ""
          THEN /\ response' = EmptyQueryResponse
               /\ local' = Nil
               /\ result' = Nil
               /\ fetches' = 0
               /\ outcomes' = 1
               /\ pc' = "done"
        ELSE
          \E pro \in {FetchPrologue(query, num_repos, page, seed)} :
          /\ local' = HandlerLocals(query, num_repos, page, seed, mint,
                                    IF pro.kind = "get" THEN pro.local ELSE Nil)
          /\ IF pro.kind = "get"
               THEN /\ result' = Nil
                    /\ response' = Nil
                    /\ fetches' = 1
                    /\ outcomes' = 0
                    /\ pc' = "waiting"
             ELSE /\ result' = pro
                  /\ response' = IF pro.kind = "raise" THEN CrashResponse(pro.exc)
                                 ELSE ResultResponse(query, pro.value)
                  /\ fetches' = 0
                  /\ outcomes' = 1
                  /\ pc' = "done"

RespondWith(r) ==
  \E epi \in {FetchEpilogue(local.get, r, globalRng)} :
  /\ upstream' = r
  /\ result' = [kind |-> "return", value |-> epi.value]
  /\ globalRng' = epi.rng
  /\ response' = ResultResponse(local.query, epi.value)
  /\ outcomes' = outcomes + 1
  /\ pc' = "done"
  /\ UNCHANGED <<req, local, fetches, ref>>

(***************************************************************************)
(* The requests and the upstream answers the model draws.                  *)
(***************************************************************************)
Body(language, topics, min_stars, max_stars, since) ==
  [language |-> language, topics |-> topics, min_stars |-> min_stars,
   max_stars |-> max_stars, since |-> since,
   exclude_archived |-> None, exclude_forks |-> None]

NoCriteria == Body(None, None, None, None, None)
PythonMin100 == Body(Some("python"), None, Some(100), None, None)
InvertedStars == Body(None, None, Some(500), Some(100), None)
BlankTopic == Body(None, Some([list |-> << <<" ">> >>]), None, None, None)
TopicsText ==
  Body(None, Some([str |-> <<"a", "i", ",", " ", ",", "m", "l">>]), None, None,
       Some("3Months"))

Bodies == {NoCriteria, PythonMin100, BlankTopic, TopicsText, InvertedStars}
NumRepos == {None, Some(-5), Some(0), Some(50), Some(100), Some(150)}
PageNumbers == {None, Some(-200), Some(-1), Some(0), Some(2), Some(10), Some(11)}
Seeds == {None, Some(7), Some(42)}

HttpAnswer(status, items, total_count) ==
  [kind |-> "http", status |-> status, items |-> items, total_count |-> total_count]

ItemLists == {<<1, 2, 3>>, <<4, 5>>}
TotalCounts == {3, 120, 5000}
FailureStatuses == {401, 403, 422, 500}
ExceptionTexts == {"Connection refused", "Read timed out. (read timeout=10)"}

Answers ==
  {HttpAnswer(200, <<>>, 0)}
    \cup {HttpAnswer(200, it, tc) : it \in ItemLists, tc \in TotalCounts}
    \cup {HttpAnswer(st, <<>>, 0) : st \in FailureStatuses}
    \cup {[kind |-> "exc", text |-> t] : t \in ExceptionTexts}

\* The process starts with its generator seeded from the operating system.
Init ==
  /\ globalRng \in RngStates
  /\ pc = "idle"
  /\ req = Nil
  /\ local = Nil
  /\ result = Nil
  /\ upstream = Nil
  /\ response = Nil
  /\ fetches = 0
  /\ outcomes = 0
  /\ ref = None

Search ==
  /\ pc = "idle"
  /\ \E data \in Bodies, n \in NumRepos, p \in PageNumbers, s \in Seeds :
       SearchWith(data, n, p, s)

\* The handler fetching again when the fetch failed in transport.
RespondRetrying ==
  /\ pc = "waiting"
  /\ \E r \in Answers :
       IF r.kind = "exc"
         THEN /\ fetches' = fetches + 1
              /\ UNCHANGED <<globalRng, pc, req, local, result, upstream, response,
                             outcomes, ref>>
       ELSE RespondWith(r)

Respond ==
  /\ pc = "waiting"
  /\ \E r \in Answers : RespondWith(r)

Deliver ==
  /\ pc = "done"
  /\ pc' = "idle"
  /\ req' = Nil
  /\ local' = Nil
  /\ result' = Nil
  /\ upstream' = Nil
  /\ response' = Nil
  /\ fetches' = 0
  /\ outcomes' = 0
  /\ UNCHANGED <<globalRng, ref>>

Next == Search \/ Respond \/ Deliver

Spec == Init /\ [][Next]_vars

(***************************************************************************)
(* Properties of the sampler and of the entry point.                       *)
(***************************************************************************)
\* The sampler was called for the request in hand.
SamplerCalled == pc \in {"waiting", "done"} /\ local # Nil

\* A request the sampler's contract admits: page size in 1..100, page from 1.
ValidRequest ==
  SamplerCalled /\ local.num_repos \in 1..MaxPerPage /\ local.page >= 1

\* floor(1000 / page size), the page size capped at 100.
MaxLogicalPages(page_size) == MaxResults \div Min(MaxPerPage, page_size)

\* A seeded request for a page beyond the last logical page.
BeyondWindow ==
  /\ SamplerCalled
  /\ local.seed # None
  /\ local.num_repos >= 1
  /\ local.page > MaxLogicalPages(local.num_repos)

\* C3: a seeded request whose logical page exceeds max_logical_pages is answered
\* with success, no items and has_more false (absent from the sampler's dict, false
\* in the entry point's answer), and no upstream fetch is issued for it.
C3_ExhaustedWindow ==
  BeyondWindow =>
    /\ pc = "done"
    /\ fetches = 0
    /\ upstream = Nil
    /\ result.kind = "return"
    /\ result.value.success
    /\ result.value.repos = <<>>
    /\ ("has_more" \in DOMAIN result.value => ~result.value.has_more)
    /\ response.status = 200
    /\ response.body.success
    /\ response.body.repositories = <<>>
    /\ response.body.returned_count = 0
    /\ ~response.body.has_more

C3_Witness == BeyondWindow /\ pc = "done" /\ local.num_repos = 100 /\ local.page = 11

\* C4: a request whose page size is outside 1..100 or whose page is below 1 is
\* rejected with a failure, and no upstream fetch is issued for it.
C4_InvalidRejected ==
  (SamplerCalled /\ (local.num_repos \notin 1..MaxPerPage \/ local.page < 1)) =>
    /\ fetches = 0
    /\ pc = "done"
    /\ ~response.body.success

\* C5: in every success answer, has_more is true exactly when the page is below
\* max_logical_pages and page * page size is below total_count.
C5_HasMoreFormula ==
  (pc = "done" /\ local # Nil /\ response.status = 200) =>
    LET per_page == Min(MaxPerPage, local.num_repos)
        max_pages == PyFloorDiv(MaxResults, per_page)
    IN response.body.has_more <=>
         (local.page < max_pages /\ local.page * per_page < response.body.total_count)

\* The same on the pages from 1 on: there the formula holds.
HasMoreOnPagesFromOne ==
  (pc = "done" /\ local # Nil /\ response.status = 200 /\ local.page >= 1) =>
    LET per_page == Min(MaxPerPage, local.num_repos)
        max_pages == PyFloorDiv(MaxResults, per_page)
    IN response.body.has_more <=>
         (local.page < max_pages /\ local.page * per_page < response.body.total_count)

\* The kind of failure an upstream answer is.
FailureKind(r) ==
  IF r.kind = "exc" THEN "TransportError"
  ELSE IF r.status = 403 THEN "RateLimited"
  ELSE IF r.status = 401 THEN "Unauthorized"
  ELSE IF r.status < 200 \/ r.status >= 300 THEN "UpstreamOther"
  ELSE "none"

UpstreamFailed == pc = "done" /\ upstream # Nil /\ FailureKind(upstream) # "none"

C7_UniformFailureEnvelope ==
  (pc = "done" /\ local # Nil /\ ~response.body.success) =>
    /\ result.kind = "return"
    /\ {"error", "repos", "total_count"} \subseteq DOMAIN response.body
    /\ response.body.repos = <<>>
    /\ response.body.total_count = 0

\* C8: a call issues at most one fetch; a valid call that is not answered as
\* window-exhausted issues exactly one and ends in exactly one answer; a fetch
\* that fails in transport (a timeout among them) ends in the transport failure
\* dict; while the fetch is out no answer has been given.
C8_OneFetchOneOutcome ==
  /\ fetches \in {0, 1}
  /\ outcomes \in {0, 1}
  /\ pc = "waiting" => fetches = 1 /\ outcomes = 0
  /\ pc = "done" => outcomes = 1
  /\ (pc = "done" /\ ValidRequest /\ ~BeyondWindow) =>
       fetches = 1 /\ upstream # Nil /\ result.kind = "return"
  /\ (pc = "done" /\ upstream # Nil /\ upstream.kind = "exc") =>
       /\ ~result.value.success
       /\ result.value.error = "Error fetching repositories: " \o upstream.text

C8_Witness ==
  /\ pc = "done" /\ ValidRequest /\ ~BeyondWindow
  /\ upstream.kind = "exc" /\ upstream.text = "Read timed out. (read timeout=10)"

\* C10: a request whose compiled query is empty is answered at once with the
\* 'at least one criterion' failure: the sampler is not called, no fetch is
\* issued and no seed is drawn from the process-wide generator.
C10_EmptyQueryRejected ==
  [][(pc = "idle" /\ pc' # "idle" /\ build_search_query(QueryFilters(req'.data)) = "") =>
       /\ pc' = "done"
       /\ response' = EmptyQueryResponse
       /\ local' = Nil
       /\ result' = Nil
       /\ upstream' = Nil
       /\ fetches' = 0
       /\ globalRng' = globalRng]_vars

C10_Witness ==
  /\ pc = "done" /\ response = EmptyQueryResponse
  /\ req.page = None /\ req.seed = None /\ req.data = BlankTopic

(***************************************************************************)
(* A seeded browsing session, page after page: the first lines of          *)
(* fetch_repositories (per_page, max_pages, the shuffled page list, the    *)
(* bounds check, the page picked) run once for each logical page 1, 2, ... *)
(* of one page size and one seed, until the sampler answers that the       *)
(* window is exhausted.  local holds the last logical page asked for and   *)
(* the underlying pages requested so far.                                  *)
(***************************************************************************)
PermPageSizes == 1..MaxPerPage
PermSeeds == {7, 42}

InitPerm ==
  /\ globalRng \in {0}
  /\ pc = "paging"
  /\ req \in {[num_repos |-> p, seed |-> Some(sd)] : p \in PermPageSizes, sd \in PermSeeds}
  /\ local = [page |-> 0, requested |-> <<>>]
  /\ result = Nil
  /\ upstream = Nil
  /\ response = Nil
  /\ fetches = 0
  /\ outcomes = 0
  /\ ref = None

RequestNextPage ==
  /\ pc = "paging"
  /\ \E pro \in {FetchPrologue("language:python", req.num_repos, local.page + 1, req.seed)} :
        /\ local' = [page |-> local.page + 1,
                     requested |-> IF pro.kind = "get"
                                     THEN Append(local.requested, pro.local.github_page)
                                   ELSE local.requested]
        /\ result' = IF pro.kind = "get" THEN Nil ELSE pro
        /\ pc' = IF pro.kind = "get" THEN "paging" ELSE "paged"
  /\ UNCHANGED <<globalRng, req, upstream, response, fetches, outcomes, ref>>

NextPerm == RequestNextPage

SpecPerm == InitPerm /\ [][NextPerm]_vars

\* C1: for every page size p in 1..100 and every seed, the underlying pages
\* requested for the logical pages 1, 2, ... are pairwise different pages of
\* 1..floor(1000/p), and when the sampler reports the window exhausted (at logical
\* page floor(1000/p) + 1) every page of 1..floor(1000/p) has been requested
\* exactly once.
C1_PermutationBijection ==
  pc \in {"paging", "paged"} =>
    LET n == Len(local.requested)
        asked == {local.requested[k] : k \in 1..n}
    IN /\ asked \subseteq 1..(MaxResults \div req.num_repos)
       /\ Cardinality(asked) = n
       /\ pc = "paging" => n = local.page
       /\ pc = "paged" =>
            /\ result.kind = "return"
            /\ n = MaxResults \div req.num_repos
            /\ local.page = n + 1
            /\ asked = 1..n

C1_Witness ==
  /\ pc = "paged" /\ req = [num_repos |-> 5, seed |-> Some(42)]
  /\ Len(local.requested) = 200
  /\ local.requested # Range1(200)

(***************************************************************************)
(* Calls compared with an earlier call.  The same handler, on fewer        *)
(* requests and answers; Remember keeps a finished call whose request      *)
(* carried a seed (its seed, page size and logical page, the upstream      *)
(* answer it received, the underlying page it asked for, what the sampler  *)
(* returned, and the state of the process-wide generator at that time)     *)
(* for the calls that follow.  Seed 8 is also a seed the handler draws.    *)
(***************************************************************************)
DetBodies == {PythonMin100}
DetNumRepos == {Some(50)}
DetPageNumbers == {None, Some(2)}
DetSeeds == {None, Some(7), Some(8)}
DetAnswers ==
  {HttpAnswer(200, <<1, 2, 3>>, 120), HttpAnswer(200, <<4, 5>>, 5000),
   HttpAnswer(200, <<>>, 0)}

SearchDet ==
  /\ pc = "idle"
  /\ \E data \in DetBodies, n \in DetNumRepos, p \in DetPageNumbers, s \in DetSeeds :
       SearchWith(data, n, p, s)

RespondDet ==
  /\ pc = "waiting"
  /\ \E r \in DetAnswers : RespondWith(r)

Remember ==
  /\ pc = "done"
  /\ ref = None
  /\ local # Nil
  /\ req.seed # None
  /\ local.get # Nil
  /\ ref' = Some([seed |-> local.seed, num_repos |-> local.num_repos, page |-> local.page,
                  upstream |-> upstream, github_page |-> local.get.github_page,
                  result |-> result, rng |-> globalRng])
  /\ UNCHANGED <<globalRng, pc, req, local, result, upstream, response, fetches, outcomes>>

NextDet == SearchDet \/ RespondDet \/ Deliver \/ Remember

SpecDet == Init /\ [][NextDet]_vars

\* The call in hand has the seed, page size and logical page of the call kept.
SameCallAsKept ==
  /\ ref # None
  /\ SamplerCalled
  /\ local.get # Nil
  /\ local.seed = ref[1].seed
  /\ local.num_repos = ref[1].num_repos
  /\ local.page = ref[1].page

\* A returned dict without the query it echoes.
WithoutQuery(env) == [k \in DOMAIN env \ {"query"} |-> env[k]]

\* C2: a call with the seed, page size and logical page of an earlier call asks
\* for the same underlying page, and when it receives the same upstream answer it
\* returns the same items in the same order (the same dict, but for the query it
\* echoes), whatever calls ran in between.
C2_SeededCallsRepeat ==
  SameCallAsKept =>
    /\ local.get.github_page = ref[1].github_page
    /\ (pc = "done" /\ upstream = ref[1].upstream) =>
         /\ result.kind = ref[1].result.kind
         /\ result.value.repos = ref[1].result.value.repos
         /\ WithoutQuery(result.value) = WithoutQuery(ref[1].result.value)

\* Such a pair of calls with three items returned in another order than the
\* upstream's, the process-wide generator having moved between them.
C2_Witness ==
  /\ SameCallAsKept
  /\ pc = "done"
  /\ upstream = ref[1].upstream
  /\ Len(result.value.repos) = 3
  /\ result.value.repos # <<1, 2, 3>>
  /\ globalRng # ref[1].rng

(***************************************************************************)
(* build_search_query on its own: a filter set is drawn, the query is      *)
(* compiled.  result holds query_parts and the string returned.            *)
(***************************************************************************)
TopicAi == <<"a", "i">>
TopicMl == <<"m", "l">>
TopicMlPadded == <<" ", "m", "l", " ">>
TopicBlank == <<" ">>

QueryLanguages == {None, Some(""), Some("python")}
QueryTopics ==
  {None, Some(<<>>), Some(<<TopicAi>>), Some(<<TopicMlPadded, TopicAi>>),
   Some(<<TopicBlank, TopicAi>>), Some(<<TopicBlank>>), Some(<<TopicAi, TopicMl>>)}
QueryMinStars == {None, Some(0), Some(100), Some(500)}
QueryMaxStars == {None, Some(0), Some(100)}
QuerySinceDates == {None, Some(""), Some("2024-01-01")}

FilterSets ==
  [language : QueryLanguages, topics : QueryTopics, min_stars : QueryMinStars,
   max_stars : QueryMaxStars, since_date : QuerySinceDates,
   exclude_archived : BOOLEAN, exclude_forks : BOOLEAN]

InitQuery ==
  /\ globalRng \in {0}
  /\ pc = "compiling"
  /\ req \in FilterSets
  /\ local = Nil
  /\ result = Nil
  /\ upstream = Nil
  /\ response = Nil
  /\ fetches = 0
  /\ outcomes = 0
  /\ ref = None

CompileQuery ==
  /\ pc = "compiling"
  /\ result' = [query_parts |-> query_parts(req), query |-> build_search_query(req)]
  /\ pc' = "compiled"
  /\ UNCHANGED <<globalRng, req, local, upstream, response, fetches, outcomes, ref>>

NextQuery == CompileQuery

SpecQuery == InitQuery /\ [][NextQuery]_vars

\* The clauses written one after the other, a single space between two of them.
RECURSIVE SpaceSeparated(_)
SpaceSeparated(parts) ==
  IF parts = <<>> THEN ""
  ELSE IF Len(parts) = 1 THEN parts[1]
  ELSE SpaceSeparated(SubSeq(parts, 1, Len(parts) - 1)) \o " " \o parts[Len(parts)]

\* The topics of the filter set, and those that are not blank.
TopicsOf(f) == IF f.topics = None THEN <<>> ELSE f.topics[1]
NonBlank(t) == \E i \in 1..Len(t) : t[i] # " "
NonBlankTopicsOf(f) == SelectSeq(TopicsOf(f), NonBlank)

\* The text of a topic without the blanks around it.
Trimmed(t) ==
  LET first == CHOOSE i \in 1..Len(t) : t[i] # " " /\ \A k \in 1..(i - 1) : t[k] = " "
      last == CHOOSE i \in 1..Len(t) : t[i] # " " /\ \A k \in (i + 1)..Len(t) : t[k] = " "
  IN Str(SubSeq(t, first, last))

\* The stars clause the bounds call for.
StarsClause(f) ==
  CASE f.min_stars # None /\ f.max_stars # None ->
         "stars:" \o ToString(f.min_stars[1]) \o ".." \o ToString(f.max_stars[1])
    [] f.min_stars # None /\ f.max_stars = None -> "stars:>=" \o ToString(f.min_stars[1])
    [] f.min_stars = None /\ f.max_stars # None -> "stars:<=" \o ToString(f.max_stars[1])

\* The compiled query has n topic clauses, the topics being ts, and otherwise one
\* clause per populated field, in the fixed order, joined by single spaces.
QueryHasClauses(f, parts, query, ts, topicText(_)) ==
  LET nLang == IF f.language \notin {None, Some("")} THEN 1 ELSE 0
      nTopics == Len(ts)
      nStars == IF f.min_stars # None \/ f.max_stars # None THEN 1 ELSE 0
      nSince == IF f.since_date \notin {None, Some("")} THEN 1 ELSE 0
      nArch == IF f.exclude_archived THEN 1 ELSE 0
      nFork == IF f.exclude_forks THEN 1 ELSE 0
  IN /\ Len(parts) = nLang + nTopics + nStars + nSince + nArch + nFork
     /\ nLang = 1 => parts[1] = "language:" \o f.language[1]
     /\ \A i \in 1..nTopics : parts[nLang + i] = "topic:" \o topicText(ts[i])
     /\ nStars = 1 => parts[nLang + nTopics + 1] = StarsClause(f)
     /\ nSince = 1 => parts[nLang + nTopics + nStars + 1] = "pushed:>=" \o f.since_date[1]
     /\ nArch = 1 => parts[nLang + nTopics + nStars + nSince + 1] = "archived:false"
     /\ nFork = 1 => parts[Len(parts)] = "fork:false"
     /\ query = SpaceSeparated(parts)
     /\ (Len(parts) = 0) <=> (query = "")

PythonMin100Filters ==
  [language |-> Some("python"), topics |-> None, min_stars |-> Some(100),
   max_stars |-> None, since_date |-> None,
   exclude_archived |-> FALSE, exclude_forks |-> FALSE]

\* C9 as stated: one clause per populated field in the fixed order, one clause for
\* each topic of the input.
C9_OneClausePerTopic ==
  pc = "compiled" =>
    QueryHasClauses(req, result.query_parts, result.query, TopicsOf(req), Str)

\* C9 amended: one clause per populated field in the fixed order language, topics,
\* stars, pushed-since, archived-exclusion, fork-exclusion, joined by single
\* spaces; one clause for each topic that is not blank, in input order, holding
\* the topic without the blanks around it, and none for a blank topic; the stars
\* clause min..max, >=min, <=max or absent; the empty string when no clause is
\* emitted; {language: python, min_stars: 100} gives "language:python stars:>=100".
C9_QueryClauses ==
  pc = "compiled" =>
    /\ QueryHasClauses(req, result.query_parts, result.query, NonBlankTopicsOf(req), Trimmed)
    /\ req = PythonMin100Filters => result.query = "language:python stars:>=100"

C9_Witness ==
  /\ pc = "compiled"
  /\ req.topics = Some(<<TopicBlank, TopicAi>>)
  /\ result.query = "language:python topic:ai stars:0..100 pushed:>=2024-01-01 archived:false fork:false"

(***************************************************************************)
(* Seeds at the entry point.                                               *)
(***************************************************************************)
\* C11: for a request that reaches the sampler, the entry point draws a seed from
\* the process-wide generator exactly when the request carries no seed and asks
\* for page 1; a seed the caller supplied is the sampler's seed unchanged; a
\* request without seed for another page reaches the sampler with no seed and
\* leaves the generator alone at the entry point; and every success answer
\* carries the seed the sampler was called with.
C11_SeedMinting ==
  [][/\ (pc = "idle" /\ pc' # "idle" /\ local' # Nil) =>
          LET page == GetOr(req'.page, 1)
              draw == Randbelow(globalRng, 1000001)
          IN /\ local'.minted <=> (req'.seed = None /\ page = 1)
             /\ local'.minted =>
                  local'.seed = Some(draw.val) /\ globalRng' = draw.rng
             /\ ~local'.minted =>
                  local'.seed = req'.seed /\ globalRng' = globalRng
             /\ local'.get # Nil => local'.get.seed = local'.seed
             /\ (local'.get = Nil /\ result'.kind = "return") =>
                  result'.value.seed = local'.seed
     /\ (pc' = "done" /\ local' # Nil /\ response'.status = 200) =>
          response'.body.seed = local'.seed]_vars

C11_Witness ==
  /\ pc = "done" /\ local # Nil /\ req.seed = None /\ local.minted
  /\ response.status = 200
  /\ response.body.repositories # <<>>
  /\ response.body.seed = local.seed
  /\ local.seed # None

(***************************************************************************)
(* Requests one after the other, none carrying a seed: the request of      *)
(* verify_api.test_randomization (language python, five repositories) for  *)
(* page 1 or page 2.  When an answer is delivered the request and its      *)
(* outcome are kept in ref, so that ref is always the request that ran     *)
(* just before the one in hand.                                            *)
(***************************************************************************)
PythonOnly == Body(Some("python"), None, None, None, None)

PairBodies == {PythonOnly}
PairNumRepos == {Some(5)}
PairPageNumbers == {None, Some(2)}
PairAnswers ==
  {HttpAnswer(200, <<1, 2, 3>>, 120), HttpAnswer(200, <<4, 5>>, 5000),
   HttpAnswer(200, <<>>, 0), HttpAnswer(403, <<>>, 0)}

SearchPair ==
  /\ pc = "idle"
  /\ \E data \in PairBodies, n \in PairNumRepos, p \in PairPageNumbers :
       SearchWith(data, n, p, None)

RespondPair ==
  /\ pc = "waiting"
  /\ \E r \in PairAnswers : RespondWith(r)

DeliverKeeping ==
  /\ pc = "done"
  /\ ref' = Some([req |-> req, query |-> local.query, seed |-> local.seed, num_repos |-> local.num_repos,
                  page |-> local.page, upstream |-> upstream, result |-> result,
                  response |-> response, rng |-> globalRng])
  /\ pc' = "idle"
  /\ req' = Nil
  /\ local' = Nil
  /\ result' = Nil
  /\ upstream' = Nil
  /\ response' = Nil
  /\ fetches' = 0
  /\ outcomes' = 0
  /\ UNCHANGED globalRng

NextPair == SearchPair \/ RespondPair \/ DeliverKeeping

SpecPair == Init /\ [][NextPair]_vars

\* Two successive requests with the same filters, page 1 and no seed, both
\* answered with success.
TwoFreshSessions ==
  /\ pc = "done" /\ ref # None
  /\ req = ref[1].req /\ req.page = None /\ req.seed = None
  /\ response.status = 200 /\ ref[1].response.status = 200

C13_OutcomeFromOwnArguments ==
  (/\ pc = "done" /\ ref # None
   /\ local.query = ref[1].query
   /\ local.seed = ref[1].seed /\ local.page = ref[1].page
   /\ local.num_repos = ref[1].num_repos
   /\ upstream = ref[1].upstream) =>
    result = ref[1].result

(***************************************************************************)
(* More properties of the entry point and the sampler, over Spec.          *)
(***************************************************************************)
\* The request in hand gives both star bounds, the lower above the upper.
StarsInverted ==
  /\ pc \in {"waiting", "done"}
  /\ req.data.min_stars # None /\ req.data.max_stars # None
  /\ req.data.min_stars[1] > req.data.max_stars[1]

\* C14: a request with min_stars above max_stars is answered with a validation
\* failure: no query is compiled for the sampler and no fetch is issued.
C14_InvertedStarsRejected ==
  StarsInverted =>
    /\ pc = "done"
    /\ local = Nil
    /\ fetches = 0
    /\ ~response.body.success

\* A request that passes every validation the contract asks for.
WellFormedRequest == ValidRequest /\ ~StarsInverted

\* C15: the fetch of a valid request asks for a provider page in
\* 1..max_logical_pages with per_page in 1..100, within the 1000-result window.
C15_FetchWithinWindow ==
  (WellFormedRequest /\ fetches >= 1) =>
    /\ local.get.per_page \in 1..MaxPerPage
    /\ local.get.github_page \in 1..local.get.max_pages
    /\ local.get.github_page * local.get.per_page <= MaxResults

\* The same for the requests that carry or were given a seed: there it holds.
SeededFetchWithinWindow ==
  (ValidRequest /\ fetches >= 1 /\ local.seed # None) =>
    /\ local.get.per_page \in 1..MaxPerPage
    /\ local.get.github_page \in 1..local.get.max_pages
    /\ local.get.github_page * local.get.per_page <= MaxResults

\* C16: every success answer to a valid request reports the logical page that was
\* requested and the seed that was used.
C16_ResponseReportsPageAndSeed ==
  (pc = "done" /\ WellFormedRequest /\ response.status = 200) =>
    /\ response.body.page = local.page
    /\ response.body.seed = local.seed

\* The seed alone: every success answer reports it.
ResponseReportsSeed ==
  (pc = "done" /\ local # Nil /\ response.status = 200) =>
    response.body.seed = local.seed

(***************************************************************************)
(* A seeded browsing session against one upstream result set.  The         *)
(* upstream holds `total` matches, numbered in the order of the sort; the  *)
(* provider answers the parameters per_page and page with the matches      *)
(* (page - 1) * per_page + 1 .. page * per_page that exist, and with the   *)
(* number of matches as total_count.  The client starts at page 1 with a   *)
(* seed and asks for the next page only after has_more = true; req holds   *)
(* the session's page size, seed and result set, local the last page       *)
(* answered, its has_more and the items received so far.                   *)
(***************************************************************************)
SessionPageSizes == {5, 50, 100}
SessionSeeds == {7, 42}
SessionTotals == {0, 3, 12, 120, 1000, 5000}

\* The provider's answer to params {per_page, page} (lines 166-175) as read at
\* lines 196-197.
UpstreamPage(total, per_page, github_page) ==
  LET first == (github_page - 1) * per_page + 1
      last == Min(github_page * per_page, Min(total, MaxResults))
  IN HttpAnswer(200, IF last < first THEN <<>> ELSE [i \in 1..(last - first + 1) |-> first + i - 1],
                total)

\* What the entry point answers for logical page `page` of the session: the
\* sampler's prologue, the provider's answer, the sampler's epilogue, the answer.
SessionAnswer(num_repos, seed, total, page, g) ==
  LET pro == FetchPrologue("language:python", num_repos, page, Some(seed)) IN
  IF pro.kind = "return" THEN ResultResponse("language:python", pro.value)
  ELSE ResultResponse("language:python",
         FetchEpilogue(pro.local,
                       UpstreamPage(total, pro.local.per_page, pro.local.github_page),
                       g).value)

InitSession ==
  /\ globalRng \in {0}
  /\ pc = "browsing"
  /\ req \in [num_repos : SessionPageSizes, seed : SessionSeeds, total : SessionTotals]
  /\ local = [page |-> 0, has_more |-> TRUE, received |-> {}]
  /\ result = Nil
  /\ upstream = Nil
  /\ response = Nil
  /\ fetches = 0
  /\ outcomes = 0
  /\ ref = None

NextSessionPage ==
  /\ pc = "browsing"
  /\ \E ans \in {SessionAnswer(req.num_repos, req.seed, req.total, local.page + 1, globalRng)} :
       /\ response' = ans
       /\ local' = [page |-> local.page + 1,
                    has_more |-> ans.body.has_more,
                    received |-> local.received \cup
                                   {ans.body.repositories[i].full_name :
                                      i \in 1..Len(ans.body.repositories)}]
       /\ pc' = IF ans.body.has_more THEN "browsing" ELSE "ended"
  /\ UNCHANGED <<globalRng, req, result, upstream, fetches, outcomes, ref>>

NextSession == NextSessionPage

SpecSession == InitSession /\ [][NextSession]_vars

\* The logical pages after the last one answered that would return items.
LaterPagesWithItems ==
  LET per_page == Min(MaxPerPage, req.num_repos)
      max_pages == MaxResults \div per_page
      pages == ShuffledPages(max_pages, req.seed)
  IN {j \in (local.page + 1)..max_pages :
        (pages[j] - 1) * per_page < Min(req.total, MaxResults)}

\* C17: in the session, has_more = false is answered for page k only if no later
\* logical page would return items, has_more = true implies that some later page
\* returns items, and a session that has ended has received every item of the
\* reachable window.
C17_HasMoreIsCorrect ==
  local.page >= 1 =>
    \E later \in {LaterPagesWithItems} :
      /\ ~local.has_more => later = {}
      /\ local.has_more => later # {}
      /\ pc = "ended" => local.received = 1..Min(req.total, MaxResults)

\* Half of it holds: has_more = true is answered only when a later page returns
\* items.
HasMoreTrueIsRight ==
  (local.page >= 1 /\ local.has_more) => LaterPagesWithItems # {}

====
